---- MODULE Spec2Model ----
(***************************************************************************)
(* The harvest pipeline of scrape.py: the request schedule (build_reqs),   *)
(* the page generator (process / parse), the journey fingerprint           *)
(* (makehash) and the ingestion loop of scrape() against the journey and   *)
(* fare tables of models.py.                                               *)
(*                                                                         *)
(* Time is counted in minutes.  A datetime is the number of minutes since  *)
(* 00:00 of day 0; a date is a day number.                                 *)
(***************************************************************************)
EXTENDS Integers, Sequences, FiniteSets, TLC

VARIABLES
    src, dest,      \* the two station codes scrape() was invoked with
    clock,          \* the wall clock, what dt.datetime.now() returns
    today,          \* the day DATETIMES was computed on (module import)
    pc,             \* position of the process: fetch, yield, ingest, done, aborted, crashed
    err,            \* the exception that ended the process, "none" while it runs
    idx,            \* position of scrape()'s loop in build_reqs(src, dest)
    page,           \* the result blocks of the page fetched last
    chrono,         \* every page fetched so far listed its blocks in chronological order
    data,           \* process(): the parsed (journey, fare) tuples of the page
    k,              \* process(): index of the tuple yielded next / being ingested
    cur,            \* the tuple yielded to scrape()'s loop body
    journey,        \* the journey table (committed rows, jid = position)
    fare,           \* the fare table (committed rows, fid = position)
    addedAt,        \* per fare row, the wall clock read when the row was added
    fetched,        \* number of requests.get calls made by this process
    slept,          \* number of time.sleep calls completed by this process
    crashPoint      \* where in the loop body the process was killed, -1 if it was not

vars == <<src, dest, clock, today, pc, err, idx, page, chrono, data, k, cur,
          journey, fare, addedAt, fetched, slept, crashPoint>>

----------------------------------------------------------------------------
(* Bounds of the model.                                                    *)

\* The loop of scrape() is followed over the first MaxReqs descriptors.
MaxReqs == 10
\* The wall clock is followed up to this minute.
MaxClock == 2000
\* At most this many blocks of one page are malformed.
MaxBad == 1

----------------------------------------------------------------------------
(* Dates and times.                                                        *)

MinutesPerHour == 60
MinutesPerDay == 1440
\* dt.timedelta(hours=23)
DedupWindow == 23 * MinutesPerHour

Day(t) == t \div MinutesPerDay
Hour(t) == (t % MinutesPerDay) \div MinutesPerHour
Minute(t) == t % MinutesPerHour
Abs(x) == IF x < 0 THEN -x ELSE x

----------------------------------------------------------------------------
(* The schedule.                                                           *)

\* range(1, 91)
NumDays == 90
\* range(25)
NumTimes == 25

\* the dates of DATETIMES, formatted by DATE_FMT: one per day, today+1 .. today+90
DATES == [i \in 1..NumDays |-> today + i]
\* "{:02}00".format(x) for x in range(25): 0000, 0100, ..., 2400, as the number HHMM
TIMES == [x \in 1..NumTimes |-> (x - 1) * 100]
\* s[::3]
EveryThird(s) == [i \in 1..((Len(s) + 2) \div 3) |-> s[3 * (i - 1) + 1]]

Request(url, date) == [url |-> url, date |-> date]
TMPL(s, d, date, time) == <<s, d, date, time>>

\* the number of Requests of the list: one per date and per third time
NumReqs == Len(DATES) * Len(EveryThird(TIMES))

\* the i-th Request of the list: "for d in DATES for t in TIMES[::3]"
ReqAt(s, d, i) ==
    LET T == EveryThird(TIMES)
        dt == DATES[((i - 1) \div Len(T)) + 1]
        tm == T[((i - 1) % Len(T)) + 1]
    IN  Request(TMPL(s, d, dt, tm), dt)

build_reqs(s, d) == [i \in 1..NumReqs |-> ReqAt(s, d, i)]

----------------------------------------------------------------------------
(* Strings, as sequences of one-character strings, and the fingerprint.    *)

DigitChars == <<"0", "1", "2", "3", "4", "5", "6", "7", "8", "9">>

RECURSIVE StrInt(_)
\* str(n) of a non-negative int
StrInt(n) == IF n < 10 THEN <<DigitChars[n + 1]>>
             ELSE StrInt(n \div 10) \o <<DigitChars[(n % 10) + 1]>>

\* n formatted with leading zeros to width w
ZeroPad(n, w) ==
    LET s == StrInt(n)
    IN  IF Len(s) >= w THEN s ELSE [i \in 1..(w - Len(s)) |-> "0"] \o s

\* str(datetime): fixed width "<date> HH:MM:00"; the date part is written as
\* the four-digit day number instead of year-month-day
StrDateTime(t) ==
    ZeroPad(Day(t), 4) \o <<" ">> \o ZeroPad(Hour(t), 2) \o <<":">>
        \o ZeroPad(Minute(t), 2) \o <<":", "0", "0">>

\* hashlib.sha1(...).hexdigest(): a digest without collisions, written as its input
sha1_hexdigest(s) == s

\* keys = ["src", "dest", "changes", "departs", "arrives"], joined without separator
makehash(j) ==
    sha1_hexdigest(j.src \o j.dest \o StrInt(j.changes)
                   \o StrDateTime(j.departs) \o StrDateTime(j.arrives))

----------------------------------------------------------------------------
(* The upstream site.  A request for date d and time t is answered with    *)
(* the departures of the timetable from t of day d on, in chronological    *)
(* order, over a window of a few hours; a block shows the clock times of   *)
(* its journey, not its dates.                                             *)

PAD == <<"P", "A", "D">>
SAU == <<"S", "A", "U">>

Trip(dep, arr, ch) == [dep |-> dep, arr |-> arr, changes |-> ch]

\* the real departures of the route: 22:30 and 23:30 of day 1 (the second
\* arriving after midnight) and 00:30 of day 2
Timetable ==
    { Trip(1 * MinutesPerDay + 22 * 60 + 30, 1 * MinutesPerDay + 23 * 60 + 40, 0),
      Trip(1 * MinutesPerDay + 23 * 60 + 30, 2 * MinutesPerDay + 0 * 60 + 40, 1),
      Trip(2 * MinutesPerDay + 0 * 60 + 30, 2 * MinutesPerDay + 1 * 60 + 45, 0) }

\* "each request returns data covering around a three-hour time span"; a
\* request for 2100 may return a journey departing 0100 of the next day
Window == 4 * MinutesPerHour

RECURSIVE SortTrips(_)
SortTrips(S) ==
    IF S = {} THEN <<>>
    ELSE LET m == CHOOSE x \in S : \A y \in S : x.dep <= y.dep
         IN  <<m>> \o SortTrips(S \ {m})

\* the minute the window of a request url starts at
UrlStart(url) == url[3] * MinutesPerDay + (url[4] \div 100) * MinutesPerHour + (url[4] % 100)

\* a result block (a tag of class "mtx") as the site renders a trip
Block(url, trip, kind) ==
    [src |-> url[1], dest |-> url[2],
     departs |-> trip.dep % MinutesPerDay,      \* "HH:MM"
     arrives |-> trip.arr % MinutesPerDay,      \* "HH:MM"
     changes |-> trip.changes, price |-> 60, kind |-> kind]

Upstream(url) ==
    LET from == UrlStart(url)
        w == SortTrips({x \in Timetable : from <= x.dep /\ x.dep < from + Window})
    IN  [i \in 1..Len(w) |-> Block(url, w[i], "ok")]

\* how a block can be malformed: a missing sub-section, a field list with
\* too few fields, a field that is not a number
BadKinds == {"nojourney", "nofare", "short", "nonnum"}

Reverse(s) == [i \in 1..Len(s) |-> s[Len(s) + 1 - i]]

\* the pages the site may answer a request with: the blocks of Upstream, in
\* chronological order or in the reverse order, of which at most MaxBad are
\* malformed
Pages(url) ==
    LET w == Upstream(url)
    IN  { [i \in 1..Len(w) |-> [o[i] EXCEPT !.kind = kinds[i]]] :
            o \in {w, Reverse(w)},
            kinds \in { f \in [1..Len(w) -> BadKinds \cup {"ok"}] :
                          Cardinality({i \in 1..Len(w) : f[i] # "ok"}) <= MaxBad } }

\* the blocks of a page are in the order of Upstream
Chronological(url, tags) ==
    \A i \in 1..Len(tags) : tags[i].departs = Upstream(url)[i].departs

----------------------------------------------------------------------------
(* parse() and process().                                                  *)

NoJourney == [src |-> <<>>, dest |-> <<>>, departs |-> 0, arrives |-> 0,
              duration |-> 0, changes |-> 0, hash |-> <<>>]
NoFare == [price |-> 0, timestamp |-> 0]
NoTuple == [journey |-> NoJourney, fare |-> NoFare]

\* parse(tag, date): "ok" with the two dicts, "false" (return False), or
\* "raise" (IndexError on a short field list, ValueError on a non-number)
parse(tag, date) ==
    IF tag.kind \in {"nojourney", "nofare"}
    THEN [status |-> "false", journey |-> NoJourney, fare |-> NoFare]
    ELSE IF tag.kind \in {"short", "nonnum"}
    THEN [status |-> "raise", journey |-> NoJourney, fare |-> NoFare]
    ELSE
      LET dep_hour == tag.departs \div MinutesPerHour
          dep_minute == tag.departs % MinutesPerHour
          arr_hour == tag.arrives \div MinutesPerHour
          arr_minute == tag.arrives % MinutesPerHour
          departs == date * MinutesPerDay + dep_hour * MinutesPerHour + dep_minute
          arrives0 == date * MinutesPerDay + arr_hour * MinutesPerHour + arr_minute
          arrives == IF arr_hour < dep_hour THEN arrives0 + MinutesPerDay ELSE arrives0
          j0 == [src |-> tag.src, dest |-> tag.dest,
                 departs |-> departs, arrives |-> arrives,
                 duration |-> arrives - departs,
                 changes |-> tag.changes, hash |-> <<>>]
      IN  [status |-> "ok",
           journey |-> [j0 EXCEPT !.hash = makehash(j0)],
           fare |-> [price |-> tag.price, timestamp |-> clock]]

\* the parse of every tag of the page, in document order
ParseAll(tags, date) == [i \in 1..Len(tags) |-> parse(tags[i], date)]

\* list(filter(bool, ...)): the tuples of the tags that parsed
Filtered(results) ==
    LET ok == SelectSeq(results, LAMBDA r : r.status = "ok")
    IN  [i \in 1..Len(ok) |-> [journey |-> ok[i].journey, fare |-> ok[i].fare]]

Spilled_keeps_arrival(journ) ==
    LET j1 == [journ EXCEPT !.departs = @ + MinutesPerDay]
        j2 == [j1 EXCEPT !.duration = j1.arrives - j1.departs]
    IN  [j2 EXCEPT !.hash = makehash(j2)]
Spilled_stale_hash(journ) ==
    LET j1 == [journ EXCEPT !.departs = @ + MinutesPerDay, !.arrives = @ + MinutesPerDay]
    IN  [j1 EXCEPT !.duration = j1.arrives - j1.departs]

\* the body of "if journey['departs'].hour < first_depart.hour"
Spilled(journ) ==
    LET j1 == [journ EXCEPT !.departs = @ + MinutesPerDay, !.arrives = @ + MinutesPerDay]
        j2 == [j1 EXCEPT !.duration = j1.arrives - j1.departs]
    IN  [j2 EXCEPT !.hash = makehash(j2)]

\* one turn of "for journey, fare in data": the tuple as it is yielded
Yielded(t, first_depart) ==
    IF Hour(t.journey.departs) < Hour(first_depart)
    THEN [t EXCEPT !.journey = Spilled(t.journey)]
    ELSE t

----------------------------------------------------------------------------
(* The SQLAlchemy session: the two tables as committed, and the objects  *)
(* added since the last commit.                                            *)

Session(J, F) == [journey |-> J, fare |-> F, newJ |-> <<>>, newF |-> <<>>]

\* session.commit(): the added journeys get the next jids, the added fares
\* the next fids; a fare of a journey added with it (jid 0) gets the jid of
\* that journey, the last one of the table
session_commit(s) ==
    LET J2 == s.journey \o
                [i \in 1..Len(s.newJ) |->
                    [jid |-> Len(s.journey) + i, hash |-> s.newJ[i].hash,
                     departs |-> s.newJ[i].departs, arrives |-> s.newJ[i].arrives,
                     duration |-> s.newJ[i].duration,
                     src |-> s.newJ[i].src, dest |-> s.newJ[i].dest,
                     changes |-> s.newJ[i].changes]]
        F2 == s.fare \o
                [i \in 1..Len(s.newF) |->
                    [fid |-> Len(s.fare) + i,
                     jid |-> IF s.newF[i].jid = 0 THEN Len(J2) ELSE s.newF[i].jid,
                     price |-> s.newF[i].price,
                     timestamp |-> s.newF[i].timestamp]]
    IN  Session(J2, F2)

session_add_journey_autocommit(s, j) ==
    session_commit([s EXCEPT !.newJ = Append(@, j)])

\* session.add(j): pending until the commit
session_add_journey(s, j) == [s EXCEPT !.newJ = Append(@, j)]

\* session.add(f) of Fare(**fare, journey=...): jid is the existing journey's
\* jid, or 0 for the journey created with it
session_add_fare(s, f, jid) ==
    [s EXCEPT !.newF = Append(@, [jid |-> jid, price |-> f.price,
                                  timestamp |-> f.timestamp])]

----------------------------------------------------------------------------
(* The loop body of scrape().                                              *)

\* session.query(Journey).filter(Journey.hash == journey['hash']): the jids found
Existing(J, h) == {i \in 1..Len(J) : J[i].hash = h}

\* session.query(Fare).join(Fare.journey).filter(Journey.jid == existing.jid).all()
FaresOf(F, jid) == {i \in 1..Len(F) : F[i].jid = jid}

\* min(fares, key=lambda x: abs(x.timestamp - now))
mostrecent(F, fares, now) ==
    CHOOSE x \in fares : \A y \in fares :
        Abs(F[x].timestamp - now) <= Abs(F[y].timestamp - now)

TooRecent_inclusive(ts, now) == ~(Abs(ts - now) >= DedupWindow)
TooRecent_22h(ts, now) == ~(Abs(ts - now) > DedupWindow - MinutesPerHour)

\* the else branch of "if abs(mostrecent.timestamp - now) > dt.timedelta(hours=23)"
TooRecent(ts, now) == ~(Abs(ts - now) > DedupWindow)

\* the session after the first p session.add calls of the new-journey branch
NewBranch(J, F, t, p) ==
    LET s0 == Session(J, F)
        s1 == session_add_journey(s0, t.journey)
        s2 == session_add_fare(s1, t.fare, 0)
    IN  IF p = 0 THEN s0 ELSE IF p = 1 THEN s1 ELSE s2

\* the session after the first p session.add calls of the existing-journey
\* branch, the clock read being now
ExistingBranch(J, F, t, jid, now, p) ==
    LET s0 == Session(J, F)
        fares == FaresOf(F, jid)
        seen == TooRecent(F[mostrecent(F, fares, now)].timestamp, now)
    IN  IF p = 0 \/ seen THEN s0 ELSE session_add_fare(s0, t.fare, jid)

\* addedAt for the rows of F2, the rows added being added at now
Stamp(F2, now) == addedAt \o [i \in 1..(Len(F2) - Len(fare)) |-> now]

----------------------------------------------------------------------------
(* The process.                                                            *)

\* "for req in build_reqs(src, dest)": the request of the current turn
req == ReqAt(src, dest, idx)
\* the loop has a next request, and the model follows it
HasNext == idx <= NumReqs /\ idx <= MaxReqs

\* the time one look-up and decision of the loop body can take, in minutes
Latency == {0, 1}
\* the time between the end of a process and the start of the next one
RunGaps == {DedupWindow - 1, DedupWindow, DedupWindow + 1}

\* the minute the first process starts at: 00:10 or 10:00 of day 0
StartClocks == {10, 10 * MinutesPerHour}

Init ==
    /\ src = PAD /\ dest = SAU
    /\ clock \in StartClocks
    /\ today = Day(clock)
    /\ pc = "fetch" /\ err = "none" /\ idx = 1
    /\ page = <<>> /\ chrono = TRUE /\ data = <<>> /\ k = 0 /\ cur = NoTuple
    /\ journey = <<>> /\ fare = <<>> /\ addedAt = <<>>
    /\ fetched = 0 /\ slept = 0 /\ crashPoint = -1

\* requests.get raises (connection error, timeout): the exception leaves
\* process() and scrape()
FetchRaises ==
    /\ pc = "fetch" /\ HasNext
    /\ \E e \in {"transport", "timeout"} : err' = e
    /\ fetched' = fetched + 1
    /\ pc' = "aborted"
    /\ UNCHANGED <<src, dest, chrono, clock, today, idx, page, data, k, cur,
                   journey, fare, addedAt, slept, crashPoint>>

\* the response has a status code other than 200: the sleep, then no tuple
FetchStatus ==
    /\ pc = "fetch" /\ HasNext
    /\ fetched' = fetched + 1 /\ slept' = slept + 1
    /\ page' = <<>> /\ data' = <<>> /\ k' = 0
    /\ idx' = idx + 1
    /\ UNCHANGED <<src, dest, chrono, clock, today, pc, err, cur,
                   journey, fare, addedAt, crashPoint>>

\* status code 200: the sleep, then every tag of the page is parsed before
\* the first tuple is yielded; an exception of parse() leaves scrape()
FetchPage ==
    /\ pc = "fetch" /\ HasNext
    /\ \E tags \in Pages(req.url) :
         LET results == ParseAll(tags, req.date)
             raised == \E i \in 1..Len(results) : results[i].status = "raise"
             d == Filtered(results)
         IN  /\ page' = tags
             /\ chrono' = (chrono /\ Chronological(req.url, tags))
             /\ IF raised
                THEN /\ pc' = "aborted" /\ err' = "parse"
                     /\ data' = <<>> /\ k' = 0 /\ idx' = idx
                ELSE /\ err' = err /\ data' = d
                     /\ IF d = <<>>
                        THEN pc' = "fetch" /\ k' = 0 /\ idx' = idx + 1
                        ELSE pc' = "yield" /\ k' = 1 /\ idx' = idx
    /\ fetched' = fetched + 1 /\ slept' = slept + 1
    /\ UNCHANGED <<src, dest, clock, today, cur, journey, fare, addedAt, crashPoint>>

\* process() resumes: the next tuple is corrected and yielded
Yield ==
    /\ pc = "yield"
    /\ cur' = Yielded(data[k], data[1].journey.departs)
    /\ pc' = "ingest"
    /\ UNCHANGED <<src, dest, chrono, clock, today, err, idx, page, data, k,
                   journey, fare, addedAt, fetched, slept, crashPoint>>

\* where the process goes after the loop body: the next tuple of the page,
\* or the next request
Advance ==
    IF k < Len(data)
    THEN pc' = "yield" /\ k' = k + 1 /\ idx' = idx
    ELSE pc' = "fetch" /\ k' = 0 /\ idx' = idx + 1

\* "if not existing": the journey and its fare, one commit
IngestNew ==
    /\ pc = "ingest"
    /\ Existing(journey, cur.journey.hash) = {}
    /\ LET s == session_commit(NewBranch(journey, fare, cur, 2))
       IN  /\ journey' = s.journey /\ fare' = s.fare
           /\ addedAt' = Stamp(s.fare, clock)
    /\ Advance
    /\ UNCHANGED <<src, dest, chrono, clock, today, err, page, data, cur,
                   fetched, slept, crashPoint>>

\* "else": the fare is added unless one was added in the last 23 hours;
\* one_or_none() raises on two journeys of one hash, min() on no fare
IngestExisting ==
    /\ pc = "ingest"
    /\ Existing(journey, cur.journey.hash) # {}
    /\ \E lat \in Latency :
         LET found == Existing(journey, cur.journey.hash)
             jid == CHOOSE i \in found : TRUE
             now == clock + lat
         IN  /\ now <= MaxClock
             /\ clock' = now
             /\ IF Cardinality(found) > 1 \/ FaresOf(fare, jid) = {}
                THEN /\ pc' = "aborted" /\ err' = "store"
                     /\ UNCHANGED <<journey, fare, addedAt, idx, k>>
                ELSE LET s == session_commit(
                                ExistingBranch(journey, fare, cur, jid, now, 1))
                     IN  /\ journey' = s.journey /\ fare' = s.fare
                         /\ addedAt' = Stamp(s.fare, now)
                         /\ err' = err
                         /\ Advance
    /\ UNCHANGED <<src, dest, chrono, today, page, data, cur, fetched, slept, crashPoint>>

\* the end of the schedule: session.close()
Finish ==
    /\ pc = "fetch" /\ ~HasNext
    /\ pc' = "done"
    /\ UNCHANGED <<src, dest, chrono, clock, today, err, idx, page, data, k, cur,
                   journey, fare, addedAt, fetched, slept, crashPoint>>

\* the process is killed.  In the loop body it is killed after p calls of
\* session.add and before the commit returns: what was added and not
\* addedAt is lost.  The memory of the process is lost with it.
Crash ==
    /\ pc \in {"fetch", "yield", "ingest"}
    /\ \E p \in 0..2 :
         LET found == Existing(journey, cur.journey.hash)
             s == IF pc # "ingest" THEN Session(journey, fare)
                  ELSE IF found = {} THEN NewBranch(journey, fare, cur, p)
                  ELSE IF Cardinality(found) > 1
                          \/ FaresOf(fare, CHOOSE i \in found : TRUE) = {}
                       THEN Session(journey, fare)
                  ELSE ExistingBranch(journey, fare, cur,
                                      CHOOSE i \in found : TRUE, clock, p)
         IN  /\ journey' = s.journey /\ fare' = s.fare
             /\ addedAt' = Stamp(s.fare, clock)
             /\ crashPoint' = IF pc = "ingest" THEN p ELSE 0
    /\ pc' = "crashed"
    /\ idx' = 0 /\ page' = <<>> /\ data' = <<>> /\ k' = 0
    /\ UNCHANGED <<src, dest, chrono, clock, today, err, cur, fetched, slept>>

\* the operator runs scrape.py again, about a day later
Restart ==
    /\ pc \in {"done", "aborted", "crashed"}
    /\ \E gap \in RunGaps :
         /\ clock + gap <= MaxClock
         /\ clock' = clock + gap
    /\ today' = Day(clock')
    /\ UNCHANGED <<src, dest, chrono, journey, fare, addedAt>>
    /\ pc' = "fetch" /\ err' = "none" /\ idx' = 1
    /\ page' = <<>> /\ data' = <<>> /\ k' = 0 /\ cur' = NoTuple
    /\ fetched' = 0 /\ slept' = 0 /\ crashPoint' = -1

Next ==
    \/ FetchRaises
    \/ FetchStatus
    \/ FetchPage
    \/ Yield
    \/ IngestNew
    \/ IngestExisting
    \/ Finish
    \/ Crash
    \/ Restart

Spec == Init /\ [][Next]_vars

----------------------------------------------------------------------------
(* The properties.                                                         *)

\* a step of the loop body that ran to its end, on a tuple whose hash is / is not stored
BodyDone == pc = "ingest" /\ pc' \in {"yield", "fetch"}
HashStored == Existing(journey, cur.journey.hash) # {}

\* the fare row the loop body adds for the journey jid
NewRow(jid) == [fid |-> Len(fare) + 1, jid |-> jid,
                price |-> cur.fare.price, timestamp |-> cur.fare.timestamp]

\* the dedup decision, the distance to the existing fares being measured from t
DedupFrom(t) ==
    LET jid == CHOOSE i \in Existing(journey, cur.journey.hash) : TRUE
    IN  /\ journey' = journey
        /\ IF \A i \in FaresOf(fare, jid) : Abs(fare[i].timestamp - t) > DedupWindow
           THEN fare' = Append(fare, NewRow(jid))
           ELSE fare' = fare

\* C1, as claimed: a tuple whose fingerprint is stored has its fare persisted
\* if and only if the new fare's own timestamp is more than 23 hours from the
\* timestamp of every fare of that journey; otherwise the store is unchanged.
C1_Original == [][(BodyDone /\ HashStored) => DedupFrom(cur.fare.timestamp)]_vars

\* C1, amended: a tuple whose fingerprint is stored has its fare persisted if
\* and only if the wall clock read at the decision (now, at or after the new
\* fare's own timestamp) is more than 23 hours from the timestamp of every
\* fare of that journey; otherwise the store is unchanged.  Exactly 23 hours
\* is suppressed.
C1_Amended == [][(BodyDone /\ HashStored) => DedupFrom(clock')]_vars

\* a second fare was persisted at a decision 23h01m after the first one's timestamp
C1_Witness ==
    \E i, j \in 1..Len(fare) :
        /\ i < j /\ fare[i].jid = fare[j].jid
        /\ addedAt[j] - fare[i].timestamp = DedupWindow + 1

SameJourney(i, j) == i < j /\ fare[i].jid = fare[j].jid

\* C2, as claimed: no journey has two persisted fares whose timestamps fall
\* on the same calendar day.
C2_Original ==
    \A i, j \in 1..Len(fare) :
        SameJourney(i, j) => Day(fare[i].timestamp) # Day(fare[j].timestamp)

\* C2, amended: of two persisted fares of one journey, the later one was
\* added at a wall-clock time more than 23 hours from the timestamp of the
\* earlier one (they may fall on the same calendar day).
C2_Amended ==
    \A i, j \in 1..Len(fare) :
        SameJourney(i, j) => Abs(addedAt[j] - fare[i].timestamp) > DedupWindow

\* two persisted fares of one journey, observed on the same calendar day
C2_Witness ==
    \E i, j \in 1..Len(fare) :
        SameJourney(i, j) /\ Day(fare[i].timestamp) = Day(fare[j].timestamp)

\* every fare references exactly one journey, every journey has a fare
StoreSound ==
    /\ \A f \in 1..Len(fare) :
          Cardinality({j \in 1..Len(journey) : journey[j].jid = fare[f].jid}) = 1
    /\ \A j \in 1..Len(journey) :
          \E f \in 1..Len(fare) : fare[f].jid = journey[j].jid

\* C3: ingesting a tuple whose fingerprint is not stored adds exactly one
\* journey and one fare referencing it; and after every step, a crash in the
\* middle of the loop body included, every fare references exactly one
\* journey and no journey is without a fare.
C3_NewJourneyAtomic ==
    [][ /\ (BodyDone /\ ~HashStored) =>
              /\ Len(journey') = Len(journey) + 1
              /\ SubSeq(journey', 1, Len(journey)) = journey
              /\ journey'[Len(journey')].hash = cur.journey.hash
              /\ fare' = Append(fare, NewRow(journey'[Len(journey')].jid))
        /\ StoreSound' ]_vars

\* the process was killed after session.add(j) of a journey that is not
\* stored, the store holding other journeys
C3_Witness ==
    /\ pc = "crashed" /\ crashPoint = 1
    /\ cur # NoTuple /\ ~HashStored
    /\ journey # <<>>

Identity(j) == <<j.src, j.dest, j.changes, j.departs, j.arrives>>

\* C4: the store holds at most one journey per fingerprint and per value of
\* (src, dest, changes, departs, arrives), and the fingerprint of a stored
\* journey is the hash of these five fields.
C4_OneJourneyPerFingerprint ==
    /\ \A i, j \in 1..Len(journey) :
          i # j => /\ journey[i].hash # journey[j].hash
                   /\ Identity(journey[i]) # Identity(journey[j])
    /\ \A i \in 1..Len(journey) : journey[i].hash = makehash(journey[i])

\* a corrected tuple is about to be ingested whose five fields are those of a
\* stored journey
C4_Witness ==
    /\ pc = "ingest"
    /\ cur.journey.departs # data[k].journey.departs
    /\ \E i \in 1..Len(journey) : Identity(journey[i]) = Identity(cur.journey)

\* C5: build_reqs returns 90 x 8 = 720 descriptors: for each of the days
\* today+1 .. today+90 in order, the times 0000, 0300, ..., 2100 in order,
\* each tagged with its date.
C5_Schedule ==
    LET r == build_reqs(src, dest)
    IN  /\ Len(r) = 720
        /\ \A i \in 1..Len(r) :
              /\ r[i].date = today + ((i - 1) \div 8) + 1
              /\ r[i].url = <<src, dest, r[i].date, ((i - 1) % 8) * 300>>

\* C6: a process never stops on a failed fetch before the end of the
\* schedule: the descriptor is skipped and the next one is fetched.
C6_FetchFailureSkipped ==
    (pc = "aborted" /\ err \in {"transport", "timeout"}) => ~HasNext

\* C7: a malformed block is discarded alone: the page yields the tuples of
\* its well-formed blocks and the process goes on.
C7_BlockIsolation ==
    page # <<>> =>
        /\ err # "parse"
        /\ Len(data) = Cardinality({i \in 1..Len(page) : page[i].kind = "ok"})

\* C8: the tuple handed to the loop body is the parsed tuple with departs and
\* arrives advanced by one day and the hash recomputed if its departure hour
\* is less than that of the first tuple of the page, and the parsed tuple
\* unchanged otherwise; it and every stored journey have duration equal to
\* arrives - departs.
C8_Rollover ==
    /\ pc = "ingest" =>
         LET raw == data[k].journey
             out == cur.journey
         IN  /\ cur.fare = data[k].fare
             /\ IF Hour(raw.departs) < Hour(data[1].journey.departs)
                THEN /\ out.departs = raw.departs + MinutesPerDay
                     /\ out.arrives = raw.arrives + MinutesPerDay
                     /\ out.hash = makehash(out)
                     /\ <<out.src, out.dest, out.changes>>
                            = <<raw.src, raw.dest, raw.changes>>
                ELSE cur = data[k]
             /\ out.duration = out.arrives - out.departs
    /\ \A i \in 1..Len(journey) :
         journey[i].duration = journey[i].arrives - journey[i].departs

\* a tuple of a page was yielded one day later than parsed
C8_Witness ==
    /\ pc = "ingest" /\ k > 1
    /\ cur.journey.departs = data[k].journey.departs + MinutesPerDay

\* C9: every request is followed by the sleep, whatever its outcome.
C9_SleepAfterEveryRequest == slept = fetched

\* C10: the pages being in chronological order, every stored journey has the
\* departure and arrival of a real trip of the timetable, whichever
\* descriptor returned it.
C10_TrueDates ==
    chrono =>
    \A i \in 1..Len(journey) :
        Trip(journey[i].departs, journey[i].arrives, journey[i].changes) \in Timetable

====
